---- MODULE Spec2Model ----
(***************************************************************************)
(* A model of the Envizo enterprise LLM core: the fine-tuning scheduler    *)
(* (src/llm/fine_tuning.py), the inference orchestrator                    *)
(* (src/llm/inference.py) and the load balancer (src/llm/load_balancer.py).*)
(*                                                                         *)
(* The managers are asyncio coroutines running on one event loop.  A       *)
(* coroutine runs without interruption from one `await` to the next, so    *)
(* every action below is one such section: the effect of the awaited       *)
(* database statement (the SELECT's read, the COMMIT's write) together     *)
(* with the synchronous code that follows it up to the next await.         *)
(* `async with get_db() as db` is modelled as what every module of the     *)
(* repository uses it for: a session of the one shared database.  The      *)
(* sessions are created with expire_on_commit=False (src/database.py:51),  *)
(* so an object loaded by a session keeps the values it was loaded with    *)
(* and a commit writes only the attributes the coroutine assigned.         *)
(***************************************************************************)
EXTENDS Integers, Sequences, FiniteSets, TLC

\* ------------------------------------------------------------------ bounds
MaxJobs == 2        \* fine-tuning jobs ever submitted
MaxRestarts == 1    \* process restarts
TrainSteps == 2     \* iterations of the simulated training loop (10 in the source)

MaxServers == 3     \* rows of server_nodes
MaxLoadServers == 2 \* rows of server_nodes while both background loops of the balancer run
MaxGenServers == 1  \* rows of server_nodes while generate calls run
MaxRequests == 2    \* generate calls ever made
MaxEntries == 2     \* rows of semantic_cache
MaxTime == 3        \* the clock's last reading
MaxHits == 2        \* largest hit_count a lookup still increments
MaxLoopErrors == 1  \* iterations of one background loop that raise

\* the background tasks: health_check_loop, metrics_collection_loop,
\* cleanup_loop, job_processing_loop
Loops == {"health", "metrics", "cleanup", "polling"}

Jobs == 1..MaxJobs
NoJob == 0

\* FineTuningJobStatus (src/models.py:178-185); "absent" is a job id with no row.
\* a cancel_job that also accepts a completed job
Cancellable_AlsoCompleted == {"queued", "preparing", "running", "completed"}
Cancellable == {"queued", "preparing", "running"}
Terminal == {"completed", "failed", "cancelled"}
ActiveStatus == {"preparing", "running"}
JobStatusValues == {"absent"} \cup Cancellable \cup Terminal

\* the concurrency cap of _process_next_job
MaxConcurrentJobs == 1

\* ServerNode rows; a row's health_status is a string (src/models.py:99).
Servers == 1..MaxServers
NoServer == 0
\* what check_server_health returns as status
ProbeResults == {"healthy", "Unhealthy: HTTP 503", "Error: timeout"}
HealthValues == {"absent", "unknown"} \cup ProbeResults

\* ServerNode.gpu_memory, the column's default
GpuMemory == 24

\* the snapshot refresh_servers gives a server that has none, which is also
\* what get_server_load_metrics returns when the fetch fails
ZeroMetrics ==
    [active_requests |-> 0, queue_depth |-> 0, gpu_memory_used |-> 0,
     gpu_memory_total |-> GpuMemory]
\* bodies a backend's /metrics endpoint answers with
MetricSamples ==
    {[active_requests |-> 5, queue_depth |-> 0, gpu_memory_used |-> 30,
      gpu_memory_total |-> 24],
     [active_requests |-> 1, queue_depth |-> 1, gpu_memory_used |-> 8,
      gpu_memory_total |-> 24],
     [active_requests |-> 2, queue_depth |-> 0, gpu_memory_used |-> 20,
      gpu_memory_total |-> 24]}
NoMetrics == [none |-> TRUE]

\* generate calls, and the names of LLMModel rows: settings.LLM_DEFAULT_MODEL
\* and another one
Requests == 1..MaxRequests
LLM_DEFAULT_MODEL == "mistral-7b"
ModelNames == {LLM_DEFAULT_MODEL, "llama-3-8b"}
NoModel == "none"
\* QueryStatus as generate uses it (src/models.py:123-129); "absent": no row
QueryStatusValues == {"absent", "pending", "processing", "completed", "failed"}

\* rows of semantic_cache (src/models.py:165-176), prompts, and the ids of
\* LLMModel rows
EntryIds == 1..MaxEntries
NoEntry == [absent |-> TRUE]
Prompts == {"Explain X", "Explain  X", "What is Y"}
ModelIds == {1, 2}
\* the cache_key argument of get and add: None, or a compute_cache_key digest
NoKey == "None"
CacheKeys == {NoKey, "md5"}
\* query_embedding as a row holds it: the JSON list add serialises, or the
\* comma-separated text of seed_semantic_cache (src/seed_data.py:695-696),
\* which json.loads rejects
Embeddings == {"json", "csv"}

\* settings.LOAD_BALANCER_STRATEGY: the three named ones and any other value
Strategies == {"round_robin", "least_load", "gpu_memory", "random"}

VARIABLES
    \* ---- durable store: server_nodes
    dbHealth,       \* [Servers -> HealthValues]   ServerNode.health_status; "absent": no row
    \* ---- LLMLoadBalancer, in memory
    servers,        \* self.servers: Seq of [id, health_status], as loaded by refresh_servers
    server_metrics, \* self.server_metrics: [Servers -> snapshot or NoMetrics]
    last_server_index,        \* self.last_server_index
    load_balancing_strategy,  \* self.load_balancing_strategy
    lbInitialized,  \* self.initialized
    hcIdx,          \* servers checked so far by the running health-check iteration
    mcList,         \* the list the running metrics iteration walks
    mcIdx,          \* servers visited so far by the running metrics iteration
    \* ---- get_server
    selected,       \* id of the node the last get_server call returned (NoServer: None)
    getTick,        \* flips at every get_server call
    rrHist,         \* ids returned since the healthy list last changed (the last N)
    metricRows,     \* ServerLoadMetrics rows of the latest pass of the metrics loop
    \* ---- durable store: fine_tuning_jobs, llm_models
    jobStatus,      \* [Jobs -> JobStatusValues]   FineTuningJob.status
    startedAt,      \* [Jobs -> BOOLEAN]           FineTuningJob.started_at is set
    completedAt,    \* [Jobs -> BOOLEAN]           FineTuningJob.completed_at is set
    outputModel,    \* [Jobs -> BOOLEAN]           the LLMModel row of the job's output exists
    \* ---- FineTuningManager, in memory
    active_jobs,    \* SUBSET Jobs                 keys of self.active_jobs
    pollPc,         \* position of job_processing_loop
    pollJob,        \* the job _process_next_job selected
    runPc,          \* [Jobs -> position of the job's _run_fine_tuning_job task]
    runStatus,      \* [Jobs -> job.status of the task's session object]
    runStep,        \* [Jobs -> step counter of the training loop]
    \* ---- one cancel_job call in flight
    cancelPc,       \* "idle", "commit", "returned"
    cancelId,       \* its job_id
    cancelRet,      \* its return value
    cancelSeen,     \* the status its select loaded
    \* ---- durable store: llm_models, queries; settings
    llmModels,      \* names of the LLMModel rows
    cacheEnabled,   \* settings.ENABLE_SEMANTIC_CACHE (and self.semantic_cache is set)
    queryStatus,    \* [Requests -> QueryStatusValues]  Query.status of the call's row
    \* ---- generate calls in flight
    genPc,          \* [Requests -> position of the call]
    genRet,         \* [Requests -> "none", "success", "error", "raised"]
    queryInfo,      \* [Requests -> the row's error_message and cached columns]
    genLog,         \* [Requests -> the call's arguments, what it returned and what it did]
    \* ---- durable store: semantic_cache; the clock
    cacheEntries,   \* [EntryIds -> row or NoEntry]
    now,            \* datetime.utcnow()
    \* ---- SemanticCache calls
    scPc,           \* position of the get call in flight: "idle", "commit"
    scCall,         \* what the get call in flight holds in its session
    scRet,          \* the last call of get or add that ended, and how
    peerPc,         \* position of a second get call in flight: "idle", "commit"
    peerCall,       \* what the second get call holds in its session
    hitsReturned,   \* [EntryIds -> number of get calls that returned the row]
    \* ---- the background tasks
    loopStopped,    \* the loops whose task ended with an exception
    loopErrors,     \* [Loops -> number of iterations that raised]
    \* ---- bookkeeping
    restarts,       \* number of process restarts so far
    resumeLog,      \* jobs _resume_jobs logged as "set back to QUEUED"
    launches,       \* [Jobs -> run tasks created for the job by this process]
    cancelledQueued \* jobs a cancel_job call found queued and cancelled (returned True)

ftVars == <<jobStatus, startedAt, completedAt, outputModel, active_jobs, pollPc,
            pollJob, runPc, runStatus, runStep, cancelPc, cancelId, cancelRet,
            cancelSeen, restarts, resumeLog, cancelledQueued,
           launches>>

lbVars == <<dbHealth, servers, server_metrics, last_server_index,
            load_balancing_strategy, lbInitialized, hcIdx, mcList, mcIdx, selected,
            getTick, rrHist, metricRows>>

genVars == <<llmModels, cacheEnabled, queryStatus, genPc, genRet, queryInfo, genLog>>

peerVars == <<peerPc, peerCall>>

scVars == <<cacheEntries, now, scPc, scCall, scRet, peerVars, hitsReturned>>

loopVars == <<loopStopped, loopErrors>>

vars == <<ftVars, lbVars, genVars, scVars, loopVars>>

\* ------------------------------------------------------------- fine tuning

\* FineTuningManager.__init__ on an empty store
InitJobs ==
    /\ jobStatus = [j \in Jobs |-> "absent"]
    /\ startedAt = [j \in Jobs |-> FALSE]
    /\ completedAt = [j \in Jobs |-> FALSE]
    /\ outputModel = [j \in Jobs |-> FALSE]
    /\ active_jobs = {}
    /\ pollPc = "down"
    /\ pollJob = NoJob
    /\ runPc = [j \in Jobs |-> "idle"]
    /\ runStatus = [j \in Jobs |-> "none"]
    /\ runStep = [j \in Jobs |-> 0]
    /\ cancelPc = "idle"
    /\ cancelId = NoJob
    /\ cancelRet = FALSE
    /\ restarts = 0
    /\ resumeLog = {}
    /\ launches = [j \in Jobs |-> 0]
    /\ cancelSeen = "absent"
    /\ cancelledQueued = {}

\* no background task has ended, no iteration has raised
InitLoops ==
    /\ loopStopped = {}
    /\ loopErrors = [l \in Loops |-> 0]

\* LLMLoadBalancer.__init__; the store holds rows 1..n, each with health h0
\* ("unknown" from load_initial_data, "healthy" from seed_gpu_demo_data)
InitLBWith(n, h0, strategy) ==
    /\ dbHealth = [s \in Servers |-> IF s <= n THEN h0 ELSE "absent"]
    /\ servers = <<>>
    /\ server_metrics = [s \in Servers |-> NoMetrics]
    /\ last_server_index = -1
    /\ load_balancing_strategy = strategy
    /\ lbInitialized = FALSE
    /\ hcIdx = 0
    /\ mcList = <<>>
    /\ mcIdx = 0
    /\ selected = NoServer
    /\ getTick = FALSE
    /\ rrHist = <<>>
    /\ metricRows = <<>>

\* a _resume_jobs that re-queues nothing
ResumedStatus_NoReset(st) == st

\* _resume_jobs: the statuses after its loop and commit
ResumedStatus(st) == IF st = "running" THEN "queued" ELSE st

_resume_jobs ==
    /\ jobStatus' = [j \in Jobs |-> ResumedStatus(jobStatus[j])]
    /\ resumeLog' = {j \in Jobs : jobStatus[j] = "running"}

\* initialize, run by the startup hook before any request is served:
\* _resume_jobs, then the polling task is created.
initialize ==
    /\ pollPc = "down"
    /\ _resume_jobs
    /\ pollPc' = "created"
    /\ UNCHANGED <<launches,
                   cancelSeen, cancelledQueued, startedAt, completedAt, outputModel,
                   active_jobs, pollJob, runPc, runStatus, runStep, cancelPc, cancelId,
                   cancelRet, restarts, lbVars, genVars, scVars, loopVars>>

\* The process stops and a new one is constructed: every task and
\* self.active_jobs are gone, the store is kept.
Restart ==
    /\ pollPc # "down"
    /\ restarts < MaxRestarts
    /\ restarts' = restarts + 1
    /\ launches' = [j \in Jobs |-> 0]
    /\ active_jobs' = {}
    /\ pollPc' = "down"
    /\ pollJob' = NoJob
    /\ runPc' = [j \in Jobs |-> "idle"]
    /\ runStatus' = [j \in Jobs |-> "none"]
    /\ runStep' = [j \in Jobs |-> 0]
    /\ cancelPc' = "idle"
    /\ cancelId' = NoJob
    /\ cancelRet' = FALSE
    /\ cancelSeen' = "absent"
    /\ UNCHANGED <<jobStatus, startedAt, completedAt, outputModel, resumeLog,
                   cancelledQueued, lbVars, genVars, scVars, loopVars>>

\* create_job with an existing base model and user: the next id, status QUEUED.
create_job ==
    /\ pollPc # "down"
    /\ \E j \in Jobs :
        /\ jobStatus[j] = "absent"
        /\ \A i \in Jobs : i < j => jobStatus[i] # "absent"
        /\ jobStatus' = [jobStatus EXCEPT ![j] = "queued"]
    /\ UNCHANGED <<launches,
                   cancelSeen, cancelledQueued, startedAt, completedAt, outputModel,
                   active_jobs, pollPc, pollJob, runPc, runStatus, runStep, cancelPc,
                   cancelId, cancelRet, restarts, resumeLog, lbVars, genVars, scVars, loopVars>>

\* _process_next_job up to its select: the check of the concurrency cap.
AtCapacity == Cardinality(active_jobs) >= MaxConcurrentJobs

poll_check ==
    /\ "polling" \notin loopStopped
    /\ pollPc \in {"created", "sleep"}
    /\ pollPc' = IF AtCapacity THEN "sleep" ELSE "select"
    /\ UNCHANGED <<launches,
                   cancelSeen, cancelledQueued, jobStatus, startedAt, completedAt,
                   outputModel, active_jobs, pollJob, runPc, runStatus, runStep,
                   cancelPc, cancelId, cancelRet, restarts, resumeLog, lbVars, genVars, scVars, loopVars>>

\* a select that takes up failed jobs again
QueuedJobs_AlsoFailed == {j \in Jobs : jobStatus[j] \in {"queued", "failed"}}

\* the select ... order_by(created_at) ... first(): ids are handed out in
\* creation order, so the oldest queued job is the smallest queued id.
QueuedJobs == {j \in Jobs : jobStatus[j] = "queued"}

\* a select that takes the newest queued job
NextQueued_Newest == CHOOSE j \in QueuedJobs : \A i \in QueuedJobs : j >= i

\* the first row of the select ordered by created_at
NextQueued == CHOOSE j \in QueuedJobs : \A i \in QueuedJobs : j <= i

\* the select's result; with a job, PREPARING and started_at are assigned
\* to the loaded object and the commit is sent.
poll_select ==
    /\ pollPc = "select"
    /\ IF QueuedJobs = {}
       THEN /\ pollPc' = "sleep"
            /\ pollJob' = NoJob
       ELSE /\ pollPc' = "commit"
            /\ pollJob' = NextQueued
    /\ UNCHANGED <<launches,
                   cancelSeen, cancelledQueued, jobStatus, startedAt, completedAt,
                   outputModel, active_jobs, runPc, runStatus, runStep, cancelPc,
                   cancelId, cancelRet, restarts, resumeLog, lbVars, genVars, scVars, loopVars>>

\* the commit of PREPARING, then create_task(_run_fine_tuning_job(job.id)).
poll_commit ==
    /\ pollPc = "commit"
    /\ jobStatus' = [jobStatus EXCEPT ![pollJob] = "preparing"]
    /\ startedAt' = [startedAt EXCEPT ![pollJob] = TRUE]
    /\ runPc' = [runPc EXCEPT ![pollJob] = "start"]
    /\ launches' = [launches EXCEPT ![pollJob] = @ + 1]
    /\ runStatus' = [runStatus EXCEPT ![pollJob] = "none"]
    /\ runStep' = [runStep EXCEPT ![pollJob] = 0]
    /\ pollPc' = "sleep"
    /\ pollJob' = NoJob
    /\ UNCHANGED <<cancelSeen, cancelledQueued, completedAt, outputModel, active_jobs,
                   cancelPc, cancelId, cancelRet, restarts, resumeLog, lbVars, genVars, scVars, loopVars>>

\* _run_fine_tuning_job after its two selects (the job, its base model; no
\* code of the repository deletes a model, so the base model is found):
\* the job is tracked as active, RUNNING is assigned and the commit is sent.
run_load(j) ==
    /\ runPc[j] = "start"
    /\ active_jobs' = active_jobs \cup {j}
    /\ runStatus' = [runStatus EXCEPT ![j] = "running"]
    /\ runPc' = [runPc EXCEPT ![j] = "commit_running"]
    /\ UNCHANGED <<launches,
                   cancelSeen, cancelledQueued, jobStatus, startedAt, completedAt,
                   outputModel, pollPc, pollJob, runStep, cancelPc, cancelId, cancelRet,
                   restarts, resumeLog, lbVars, genVars, scVars, loopVars>>

\* the commit of RUNNING; the output directory is made and the first
\* iteration of the training loop sends its commit of job.metrics.
run_commit_running(j) ==
    /\ runPc[j] = "commit_running"
    /\ jobStatus' = [jobStatus EXCEPT ![j] = runStatus[j]]
    /\ runPc' = [runPc EXCEPT ![j] = "train"]
    /\ UNCHANGED <<launches,
                   cancelSeen, cancelledQueued, startedAt, completedAt, outputModel,
                   active_jobs, pollPc, pollJob, runStatus, runStep, cancelPc, cancelId,
                   cancelRet, restarts, resumeLog, lbVars, genVars, scVars, loopVars>>

\* one iteration of the training loop: the commit of job.metrics (which
\* writes no status) and the sleep; after the last one the model files are
\* written, the output LLMModel is added and its commit is sent.
run_step(j) ==
    /\ runPc[j] = "train"
    /\ runStep' = [runStep EXCEPT ![j] = @ + 1]
    /\ runPc' = [runPc EXCEPT ![j] = IF runStep[j] + 1 < TrainSteps
                                      THEN "train" ELSE "commit_model"]
    /\ UNCHANGED <<launches,
                   cancelSeen, cancelledQueued, jobStatus, startedAt, completedAt,
                   outputModel, active_jobs, pollPc, pollJob, runStatus, cancelPc,
                   cancelId, cancelRet, restarts, resumeLog, lbVars, genVars, scVars, loopVars>>

\* a `finally` block that keeps the job tracked
ReleaseSlot_Keep(j) == active_jobs

\* the `finally` block up to its commit: the job leaves self.active_jobs.
ReleaseSlot(j) == active_jobs \ {j}

\* the commit of the output model and its refresh; COMPLETED is assigned,
\* then the `finally` block runs and sends the last commit.
run_commit_model(j) ==
    /\ runPc[j] = "commit_model"
    /\ outputModel' = [outputModel EXCEPT ![j] = TRUE]
    /\ runStatus' = [runStatus EXCEPT ![j] = "completed"]
    /\ active_jobs' = ReleaseSlot(j)
    /\ runPc' = [runPc EXCEPT ![j] = "commit_final"]
    /\ UNCHANGED <<launches,
                   cancelSeen, cancelledQueued, jobStatus, startedAt, completedAt,
                   pollPc, pollJob, runStep, cancelPc, cancelId, cancelRet, restarts,
                   resumeLog, lbVars, genVars, scVars, loopVars>>

\* an exception inside the `try` (making the directory, writing a file, a
\* commit): the `except` block assigns FAILED, then the `finally` block.
run_raise(j) ==
    /\ runPc[j] \in {"train", "commit_model"}
    /\ runStatus' = [runStatus EXCEPT ![j] = "failed"]
    /\ active_jobs' = ReleaseSlot(j)
    /\ runPc' = [runPc EXCEPT ![j] = "commit_final"]
    /\ UNCHANGED <<launches,
                   cancelSeen, cancelledQueued, jobStatus, startedAt, completedAt,
                   outputModel, pollPc, pollJob, runStep, cancelPc, cancelId, cancelRet,
                   restarts, resumeLog, lbVars, genVars, scVars, loopVars>>

\* the last commit: the status and completed_at the task assigned.
run_commit_final(j) ==
    /\ runPc[j] = "commit_final"
    /\ jobStatus' = [jobStatus EXCEPT ![j] = runStatus[j]]
    /\ completedAt' = [completedAt EXCEPT ![j] = TRUE]
    /\ runPc' = [runPc EXCEPT ![j] = "done"]
    /\ UNCHANGED <<launches,
                   cancelSeen, cancelledQueued, startedAt, outputModel, active_jobs,
                   pollPc, pollJob, runStatus, runStep, cancelPc, cancelId, cancelRet,
                   restarts, resumeLog, lbVars, genVars, scVars, loopVars>>

\* cancel_job after its select: no row or a status outside the three
\* cancellable ones returns False; otherwise CANCELLED and completed_at are
\* assigned, the job is removed from self.active_jobs and the commit is sent.
cancel_select(j) ==
    /\ pollPc # "down"
    /\ cancelPc = "idle"
    /\ cancelId' = j
    /\ cancelSeen' = jobStatus[j]
    /\ IF jobStatus[j] \notin Cancellable
       THEN /\ cancelPc' = "returned"
            /\ cancelRet' = FALSE
            /\ UNCHANGED active_jobs
       ELSE /\ cancelPc' = "commit"
            /\ cancelRet' = FALSE
            /\ active_jobs' = ReleaseSlot(j)
    /\ UNCHANGED <<launches,
                   cancelledQueued, jobStatus, startedAt, completedAt, outputModel,
                   pollPc, pollJob, runPc, runStatus, runStep, restarts, resumeLog,
                   lbVars, genVars, scVars, loopVars>>

\* the commit of cancel_job, and `return True`.
cancel_commit ==
    /\ cancelPc = "commit"
    /\ jobStatus' = [jobStatus EXCEPT ![cancelId] = "cancelled"]
    /\ completedAt' = [completedAt EXCEPT ![cancelId] = TRUE]
    /\ cancelRet' = TRUE
    /\ cancelPc' = "returned"
    /\ cancelledQueued' = IF cancelSeen = "queued"
                          THEN cancelledQueued \cup {cancelId} ELSE cancelledQueued
    /\ UNCHANGED <<launches,
                   cancelSeen, startedAt, outputModel, active_jobs, pollPc, pollJob,
                   runPc, runStatus, runStep, cancelId, restarts, resumeLog, lbVars, genVars, scVars, loopVars>>

\* the caller (cancel_fine_tuning_job) takes the result.
cancel_return ==
    /\ cancelPc = "returned"
    /\ cancelPc' = "idle"
    /\ cancelId' = NoJob
    /\ cancelRet' = FALSE
    /\ cancelSeen' = "absent"
    /\ UNCHANGED <<launches,
                   cancelledQueued, jobStatus, startedAt, completedAt, outputModel,
                   active_jobs, pollPc, pollJob, runPc, runStatus, runStep, restarts,
                   resumeLog, lbVars, genVars, scVars, loopVars>>

\* -------------------------------------------------------------- load balancer

\* refresh_servers: the active rows, in the order they were registered, each
\* with the health_status the store holds now.
RECURSIVE LoadServers(_)
LoadServers(n) ==
    IF n = 0 THEN <<>>
    ELSE IF dbHealth[n] = "absent" THEN LoadServers(n - 1)
    ELSE Append(LoadServers(n - 1), [id |-> n, health_status |-> dbHealth[n]])

\* refresh_servers: a server without a cached snapshot gets the zero one.
InitMetrics(list, metrics) ==
    [s \in Servers |->
        IF (\E i \in 1..Len(list) : list[i].id = s) /\ metrics[s] = NoMetrics
        THEN ZeroMetrics ELSE metrics[s]]

\* a filter that also lets a server through that was never probed
IsHealthy_OrUnknown(server) == server.health_status \in {"healthy", "unknown"}

\* get_server: the filter on health status
IsHealthy(server) == server.health_status = "healthy"
HealthyServers(list) == SelectSeq(list, IsHealthy)

\* a round robin that advances by two
RoundRobinIndex_SkipOne(last, n) == (last + 2) % n

\* _round_robin_strategy: the index it stores
RoundRobinIndex(last, n) == (last + 1) % n

\* _least_load_strategy: the load of a server, from the cached snapshot
MetricOr(metrics, field, default) ==
    IF field \in DOMAIN metrics THEN metrics[field] ELSE default
Load(metrics) ==
    MetricOr(metrics, "active_requests", 0) + MetricOr(metrics, "queue_depth", 0)

\* a scan that lets a later server with an equal load win
RECURSIVE LeastLoadScan_LastWins(_, _, _, _, _)
LeastLoadScan_LastWins(list, metrics, i, min_load, best) ==
    IF i > Len(list) THEN best
    ELSE LET load == Load(metrics[list[i].id])
         IN  IF best = NoServer \/ load <= min_load
             THEN LeastLoadScan_LastWins(list, metrics, i + 1, load, list[i].id)
             ELSE LeastLoadScan_LastWins(list, metrics, i + 1, min_load, best)

\* _least_load_strategy: the scan, from position i with the best so far
\* (best = NoServer stands for min_load = inf, which every load is below)
RECURSIVE LeastLoadScan(_, _, _, _, _)
LeastLoadScan(list, metrics, i, min_load, best) ==
    IF i > Len(list) THEN best
    ELSE LET load == Load(metrics[list[i].id])
         IN  IF best = NoServer \/ load < min_load
             THEN LeastLoadScan(list, metrics, i + 1, load, list[i].id)
             ELSE LeastLoadScan(list, metrics, i + 1, min_load, best)

_least_load_strategy(list, metrics) ==
    LET best == LeastLoadScan(list, metrics, 1, 0, NoServer)
    IN  IF best = NoServer THEN list[1].id ELSE best

\* _gpu_memory_strategy: the scan, max_available_memory starting at -1
AvailableMemory(metrics) ==
    MetricOr(metrics, "gpu_memory_total", GpuMemory)
        - MetricOr(metrics, "gpu_memory_used", 0)

RECURSIVE GpuMemoryScan(_, _, _, _, _)
GpuMemoryScan(list, metrics, i, max_available, best) ==
    IF i > Len(list) THEN best
    ELSE LET available == AvailableMemory(metrics[list[i].id])
         IN  IF available > max_available
             THEN GpuMemoryScan(list, metrics, i + 1, available, list[i].id)
             ELSE GpuMemoryScan(list, metrics, i + 1, max_available, best)

_gpu_memory_strategy(list, metrics) ==
    LET best == GpuMemoryScan(list, metrics, 1, -1, NoServer)
    IN  IF best = NoServer THEN list[1].id ELSE best

\* get_server on a server list: [server, index], server = NoServer for None
SelectServer(list, metrics, strategy, last) ==
    LET healthy == HealthyServers(list)
    IN  IF healthy = <<>> THEN [server |-> NoServer, index |-> last]
        ELSE IF strategy = "least_load"
             THEN [server |-> _least_load_strategy(healthy, metrics), index |-> last]
        ELSE IF strategy = "gpu_memory"
             THEN [server |-> _gpu_memory_strategy(healthy, metrics), index |-> last]
        ELSE LET idx == RoundRobinIndex(last, Len(healthy))
             IN  [server |-> healthy[idx + 1].id, index |-> idx]

\* the ids of a list's healthy servers, and the window of returned ids
Ids(list) == [i \in 1..Len(list) |-> list[i].id]
HealthyIds(list) == Ids(HealthyServers(list))
LastN(seq, n) ==
    IF Len(seq) <= n THEN seq ELSE SubSeq(seq, Len(seq) - n + 1, Len(seq))
\* the window is kept for the round-robin policy (the default of get_server)
UsesRoundRobin == load_balancing_strategy \notin {"least_load", "gpu_memory"}
\* the window restarts when the list of healthy servers changes
HistAfterRefresh(new) ==
    IF UsesRoundRobin /\ HealthyIds(new) = HealthyIds(servers) THEN rrHist ELSE <<>>

\* LLMLoadBalancer.initialize, run by the startup hook: refresh_servers, then
\* the two loops are created.
lb_initialize ==
    /\ ~lbInitialized
    /\ servers' = LoadServers(MaxServers)
    /\ server_metrics' = InitMetrics(servers', server_metrics)
    /\ rrHist' = HistAfterRefresh(servers')
    /\ lbInitialized' = TRUE
    /\ UNCHANGED <<dbHealth, last_server_index, load_balancing_strategy, hcIdx, mcList,
                   mcIdx, metricRows, selected, getTick, ftVars, genVars, scVars, loopVars>>

\* get_server: with an empty list the servers are refreshed first.
get_server ==
    /\ servers' = IF servers = <<>> THEN LoadServers(MaxServers) ELSE servers
    /\ server_metrics' = IF servers = <<>> THEN InitMetrics(servers', server_metrics)
                         ELSE server_metrics
    /\ LET r == SelectServer(servers', server_metrics', load_balancing_strategy,
                             last_server_index)
       IN  /\ selected' = r.server
           /\ last_server_index' = r.index
           /\ rrHist' = IF r.server = NoServer \/ ~UsesRoundRobin THEN <<>>
                        ELSE LastN(Append(HistAfterRefresh(servers'), r.server),
                                   Len(HealthyServers(servers')))
    /\ getTick' = ~getTick
    /\ UNCHANGED <<dbHealth, load_balancing_strategy, lbInitialized, hcIdx, mcList,
                   mcIdx, metricRows>>

\* a get_server call of a request being served, the request left out
lb_get_server ==
    /\ lbInitialized
    /\ get_server
    /\ UNCHANGED <<ftVars, genVars, scVars, loopVars>>

\* _check_all_servers_health, one server of its loop: check_server_health
\* probes it and update_server_health commits the status to its row.
hc_check ==
    /\ lbInitialized
    /\ "health" \notin loopStopped
    /\ hcIdx < Len(servers)
    /\ \E status \in ProbeResults :
          dbHealth' = [dbHealth EXCEPT ![servers[hcIdx + 1].id] = status]
    /\ hcIdx' = hcIdx + 1
    /\ UNCHANGED <<servers, server_metrics, last_server_index, load_balancing_strategy,
                   lbInitialized, mcList, mcIdx, metricRows, selected, getTick, rrHist,
                   ftVars, genVars, scVars, loopVars>>

\* _check_all_servers_health after its loop: refresh_servers.
hc_refresh ==
    /\ lbInitialized
    /\ "health" \notin loopStopped
    /\ hcIdx = Len(servers)
    /\ servers' = LoadServers(MaxServers)
    /\ server_metrics' = InitMetrics(servers', server_metrics)
    /\ rrHist' = HistAfterRefresh(servers')
    /\ hcIdx' = 0
    /\ UNCHANGED <<dbHealth, last_server_index, load_balancing_strategy, lbInitialized,
                   mcList, mcIdx, metricRows, selected, getTick, ftVars, genVars, scVars, loopVars>>

\* _collect_all_server_metrics starts walking self.servers
mc_start ==
    /\ lbInitialized
    /\ "metrics" \notin loopStopped
    /\ mcIdx = 0
    /\ mcList = <<>>
    /\ servers # <<>>
    /\ mcList' = servers
    /\ metricRows' = <<>>
    /\ UNCHANGED <<dbHealth, servers, server_metrics, last_server_index,
                   load_balancing_strategy, lbInitialized, hcIdx, mcIdx, selected,
                   getTick, rrHist, ftVars, genVars, scVars, loopVars>>

\* get_server_load_metrics: the body of a 200 answer, or the zero snapshot
\* on another status code or an exception
FetchResults == MetricSamples \cup {ZeroMetrics}

\* _collect_all_server_metrics with what get_server_load_metrics returned:
\* the snapshot replaces the cached one and a ServerLoadMetrics row with its
\* values is added to the session
AfterFetch(m, server_id) ==
    [cache |-> [server_metrics EXCEPT ![server_id] = m],
     rows |-> Append(metricRows, [server_id |-> server_id, metrics |-> m])]

\* one server of the metrics loop: skipped unless healthy, else its fetched
\* snapshot replaces the cached one; after the last server the rows are
\* committed.
mc_collect ==
    /\ "metrics" \notin loopStopped
    /\ mcIdx < Len(mcList)
    /\ LET server == mcList[mcIdx + 1]
       IN  IF ~IsHealthy(server)
           THEN UNCHANGED <<server_metrics, metricRows>>
           ELSE \E m \in FetchResults :
                   /\ server_metrics' = AfterFetch(m, server.id).cache
                   /\ metricRows' = AfterFetch(m, server.id).rows
    /\ IF mcIdx + 1 = Len(mcList)
       THEN mcIdx' = 0 /\ mcList' = <<>>
       ELSE mcIdx' = mcIdx + 1 /\ UNCHANGED mcList
    /\ UNCHANGED <<dbHealth, servers, last_server_index, load_balancing_strategy,
                   lbInitialized, hcIdx, selected, getTick, rrHist, ftVars, genVars, scVars, loopVars>>

LBNext ==
    \/ lb_initialize
    \/ lb_get_server
    \/ hc_check
    \/ hc_refresh
    \/ mc_start
    \/ mc_collect

\* the balancer with its health-check loop, for the round-robin policy
\* (which reads no metrics)
RRNext ==
    \/ lb_initialize
    \/ lb_get_server
    \/ hc_check
    \/ hc_refresh

\* ------------------------------------------------------ inference orchestrator

\* the prompts generate is called with
GenPrompts == {"Explain X", "What is Y"}

\* a call that has not started: nothing asked, returned or done
NoLog ==
    [model_name |-> NoModel, prompt |-> "none", model |-> NoModel, error |-> "none",
     cached |-> FALSE, after |-> {}, rows |-> 0, cache_probes |-> 0, lb_calls |-> 0,
     backend_calls |-> 0, cache_adds |-> 0]

InitGenWith(models, enabled) ==
    /\ llmModels = models
    /\ cacheEnabled = enabled
    /\ queryStatus = [r \in Requests |-> "absent"]
    /\ genPc = [r \in Requests |-> "idle"]
    /\ genRet = [r \in Requests |-> "none"]
    /\ queryInfo = [r \in Requests |-> [error_message |-> "none", cached |-> FALSE]]
    /\ genLog = [r \in Requests |-> NoLog]

\* a resolution that does not fall back to the default model
ResolveModel_NoFallback(model_name) ==
    IF model_name \in llmModels THEN model_name ELSE NoModel

\* _generate_with_db: the model the two SELECTs resolve a name to
ResolveModel(model_name) ==
    IF model_name \in llmModels THEN model_name
    ELSE IF LLM_DEFAULT_MODEL \in llmModels THEN LLM_DEFAULT_MODEL
    ELSE NoModel

\* a lookup that finds nothing instead of raising
CacheGetOutcome_Miss(enabled) == IF enabled THEN "miss" ELSE "skip"

\* the cache probe of generate.  With the cache enabled a cache key is always
\* passed, and SemanticCache.get builds its statement from
\* SemanticCacheEntry.cache_key, an attribute the mapped class
\* (src/models.py:165-176) does not have: the lookup raises AttributeError.
CacheGetOutcome(enabled) == IF enabled THEN "raise" ELSE "skip"

\* the cache write of generate.  SemanticCache.add constructs
\* SemanticCacheEntry(..., cache_key=...), which raises TypeError for the same
\* reason.
CacheAddOutcome(enabled) == IF enabled THEN "raise" ELSE "skip"

\* model resolution and log_query: the row is committed with status PENDING.
\* Calls are numbered in the order they start.
gen_resolve(r) ==
    /\ lbInitialized
    /\ genPc[r] = "idle"
    /\ \A q \in Requests : q < r => genPc[q] # "idle"
    /\ \E model_name \in ModelNames, prompt \in GenPrompts :
          LET model == ResolveModel(model_name)
              log == [genLog[r] EXCEPT !.model_name = model_name, !.prompt = prompt,
                                       !.model = model,
                                       !.after = {q \in Requests : genPc[q] = "done"}]
          IN  IF model = NoModel
              THEN /\ genPc' = [genPc EXCEPT ![r] = "done"]
                   /\ genRet' = [genRet EXCEPT ![r] = "error"]
                   /\ genLog' = [genLog EXCEPT ![r] = [log EXCEPT !.error = "Model not found"]]
                   /\ UNCHANGED queryStatus
              ELSE /\ queryStatus' = [queryStatus EXCEPT ![r] = "pending"]
                   /\ genPc' = [genPc EXCEPT ![r] = "logged"]
                   /\ genLog' = [genLog EXCEPT ![r] = [log EXCEPT !.rows = @ + 1]]
                   /\ UNCHANGED genRet
    /\ UNCHANGED <<llmModels, cacheEnabled, queryInfo, ftVars, lbVars, scVars, loopVars>>

\* the cache probe and, unless it hits or raises, load_balancer.get_server.
\* semantic_cache.get is awaited outside the try block, so what it raises
\* leaves generate.
gen_select(r) ==
    /\ genPc[r] = "logged"
    /\ LET probe == CacheGetOutcome(cacheEnabled)
           probed == [genLog[r] EXCEPT !.cache_probes =
                                          IF probe = "skip" THEN @ ELSE @ + 1]
       IN  IF probe = "raise"
           THEN /\ genPc' = [genPc EXCEPT ![r] = "done"]
                /\ genRet' = [genRet EXCEPT ![r] = "raised"]
                /\ genLog' = [genLog EXCEPT ![r] = probed]
                /\ UNCHANGED lbVars
           ELSE IF probe = "hit"
           THEN /\ genPc' = [genPc EXCEPT ![r] = "hit"]
                /\ genLog' = [genLog EXCEPT ![r] = probed]
                /\ UNCHANGED <<genRet, lbVars>>
           ELSE /\ get_server
                /\ genPc' = [genPc EXCEPT ![r] = IF selected' = NoServer
                                                 THEN "no_server" ELSE "processing"]
                /\ genLog' = [genLog EXCEPT ![r] = [probed EXCEPT !.lb_calls = @ + 1]]
                /\ UNCHANGED genRet
    /\ UNCHANGED <<llmModels, cacheEnabled, queryStatus, queryInfo, ftVars, scVars, loopVars>>

\* UPDATE queries SET status = PROCESSING, committed
gen_processing(r) ==
    /\ genPc[r] = "processing"
    /\ queryStatus' = [queryStatus EXCEPT ![r] = "processing"]
    /\ genPc' = [genPc EXCEPT ![r] = "dispatch"]
    /\ UNCHANGED <<llmModels, cacheEnabled, genRet, queryInfo, genLog, ftVars, lbVars,
                   scVars, loopVars>>

\* what the POST to the backend comes back with: a 200 body, another status
\* code, a 200 body with an "error" field, or an exception (a timeout)
DispatchOutcomes == {"ok", "http_error", "error_field", "except"}

\* a dispatch that is tried again after an exception
AfterDispatch_Retry(outcome) == IF outcome = "except" THEN "dispatch" ELSE outcome

\* where generate goes with the outcome of its one POST
AfterDispatch(outcome) == outcome

gen_dispatch(r) ==
    /\ genPc[r] = "dispatch"
    /\ \E outcome \in DispatchOutcomes :
          genPc' = [genPc EXCEPT ![r] = AfterDispatch(outcome)]
    /\ genLog' = [genLog EXCEPT ![r].backend_calls = @ + 1]
    /\ UNCHANGED <<llmModels, cacheEnabled, queryStatus, genRet, queryInfo, ftVars,
                   lbVars, scVars, loopVars>>

\* a handler that records a body with an error field as a completed answer
StatusWritten_ErrorFieldCompleted(pc) ==
    IF pc \in {"hit", "ok", "error_field"} THEN "completed" ELSE "failed"

\* the status each call site of update_query_response passes
StatusWritten(pc) == IF pc \in {"hit", "ok"} THEN "completed" ELSE "failed"

\* a handler that marks every record as served from the cache
CachedWritten_Always(pc) == TRUE

\* the `cached` each call site of update_query_response passes: True on the
\* cache-hit path, the default False elsewhere
CachedWritten(pc) == pc = "hit"

\* the error_message each call site passes, which is also the "error" of the
\* result generate returns there
ErrorText(pc) ==
    CASE pc = "no_server" -> "No suitable server available"
      [] pc = "http_error" -> "LLM server error: HTTP 500"
      [] pc = "error_field" -> "LLM server error: overloaded"
      [] pc = "except" -> "Error: exception"
      [] OTHER -> "none"

\* update_query_response at one of its call sites, and the code after it.
\* After the write of "completed" the cache write runs inside the try block:
\* what it raises is caught by the handler, whose own update_query_response
\* call comes next.
gen_update(r) ==
    /\ genPc[r] \in {"hit", "no_server", "ok", "http_error", "error_field", "except"}
    /\ LET status == StatusWritten(genPc[r])
           adds == genPc[r] = "ok" /\ cacheEnabled
           log == [genLog[r] EXCEPT !.cache_adds = IF adds THEN @ + 1 ELSE @]
       IN  /\ queryStatus' = [queryStatus EXCEPT ![r] = status]
           /\ queryInfo' = [queryInfo EXCEPT ![r] =
                               [error_message |-> IF ErrorText(genPc[r]) = "none"
                                                  THEN @.error_message
                                                  ELSE ErrorText(genPc[r]),
                                cached |-> CachedWritten(genPc[r])]]
           /\ IF adds /\ CacheAddOutcome(cacheEnabled) = "raise"
              THEN /\ genPc' = [genPc EXCEPT ![r] = "except"]
                   /\ genLog' = [genLog EXCEPT ![r] = log]
                   /\ UNCHANGED genRet
              ELSE /\ genPc' = [genPc EXCEPT ![r] = "done"]
                   /\ genRet' = [genRet EXCEPT ![r] =
                                    IF status = "completed" THEN "success" ELSE "error"]
                   /\ genLog' = [genLog EXCEPT ![r] =
                                    [log EXCEPT !.error = ErrorText(genPc[r]),
                                                !.cached = genPc[r] = "hit"]]
    /\ UNCHANGED <<llmModels, cacheEnabled, ftVars, lbVars, scVars, loopVars>>

GenNext ==
    \/ lb_initialize
    \/ hc_check
    \/ hc_refresh
    \/ \E r \in Requests : gen_resolve(r)
    \/ \E r \in Requests : gen_select(r)
    \/ \E r \in Requests : gen_processing(r)
    \/ \E r \in Requests : gen_dispatch(r)
    \/ \E r \in Requests : gen_update(r)

\* ------------------------------------------------------------ semantic cache

NoCall == [op |-> "none"]

InitCacheWith(entries) ==
    /\ cacheEntries = entries
    /\ now = 0
    /\ scPc = "idle"
    /\ scCall = NoCall
    /\ scRet = NoCall
    /\ peerPc = "idle"
    /\ peerCall = NoCall
    /\ hitsReturned = [e \in EntryIds |-> 0]

\* rows the table can hold when the process starts
EntryRows ==
    [query_text : Prompts, query_embedding : Embeddings, model_id : ModelIds,
     expires_at : 1..MaxTime, hit_count : {0}]

\* the response text a row holds for its query
ResponseFor(query_text) == <<"response to", query_text>>

\* cosine_similarity(embedding of p, embedding of q) >= similarity_threshold:
\* equal texts have equal embeddings; of the texts here one other pair is
\* taken to be above the threshold
Similar(p, q) == p = q \/ {p, q} = {"Explain X", "Explain  X"}

\* a filter that lets every row through
NotExpired_Ignored(entry, t) == TRUE

\* the WHERE clause of both SELECTs of get: expires_at > utcnow()
NotExpired(entry, t) == entry.expires_at > t

\* the rows the similarity SELECT of get returns, and those among them the
\* loop accepts: the embedding parses and is similar enough
LiveEntries(model_id, t) ==
    {e \in EntryIds : /\ cacheEntries[e] # NoEntry
                      /\ cacheEntries[e].model_id = model_id
                      /\ NotExpired(cacheEntries[e], t)}
Matching(prompt, model_id, t) ==
    {e \in LiveEntries(model_id, t) :
        /\ cacheEntries[e].query_embedding = "json"
        /\ Similar(prompt, cacheEntries[e].query_text)}
FirstOf(S) == CHOOSE e \in S : \A f \in S : e <= f

\* what is kept of a call that ended: its arguments, how it ended, and the
\* row a hit returned with the hit_count it wrote
Ended(call, outcome) ==
    [op |-> call.op, prompt |-> call.prompt, model_id |-> call.model_id,
     cache_key |-> call.cache_key,
     outcome |-> outcome,
     entry |-> IF outcome = "hit" THEN call.entry ELSE 0,
     hit_count |-> IF outcome = "hit" THEN call.hit_count ELSE 0]

\* SemanticCache.get up to its commit.  With a cache key the statement of the
\* exact-key path is built first and raises; without one the similarity path
\* runs and the first accepted row has its hit_count incremented in the
\* session.
sc_get_select ==
    /\ scPc = "idle"
    /\ \E prompt \in GenPrompts, model_id \in ModelIds, cache_key \in CacheKeys :
          LET call == [op |-> "get", prompt |-> prompt, model_id |-> model_id,
                       cache_key |-> cache_key]
              found == Matching(prompt, model_id, now)
          IN  IF ~cacheEnabled
              THEN /\ scRet' = Ended(call, "none")
                   /\ UNCHANGED <<scPc, scCall>>
              ELSE IF cache_key # NoKey
              THEN /\ scRet' = Ended(call, CacheGetOutcome(cacheEnabled))
                   /\ UNCHANGED <<scPc, scCall>>
              ELSE IF found = {}
              THEN /\ scRet' = Ended(call, "none")
                   /\ UNCHANGED <<scPc, scCall>>
              ELSE /\ cacheEntries[FirstOf(found)].hit_count < MaxHits
                   /\ scPc' = "commit"
                   /\ scCall' = call @@
                         [entry |-> FirstOf(found),
                          hit_count |-> cacheEntries[FirstOf(found)].hit_count + 1,
                          response |-> ResponseFor(cacheEntries[FirstOf(found)].query_text)]
                   /\ UNCHANGED scRet
    /\ UNCHANGED <<cacheEntries, now, peerVars, hitsReturned, ftVars, lbVars, genVars,
                   loopVars>>

\* the commit of get and its return: the UPDATE writes the hit_count the
\* session holds; a row deleted since the SELECT makes the flush raise
\* StaleDataError.
sc_get_commit ==
    /\ scPc = "commit"
    /\ IF cacheEntries[scCall.entry] = NoEntry
       THEN /\ scRet' = Ended(scCall, "raise")
            /\ UNCHANGED <<cacheEntries, hitsReturned>>
       ELSE /\ cacheEntries' = [cacheEntries EXCEPT
                                   ![scCall.entry].hit_count = scCall.hit_count]
            /\ hitsReturned' = [hitsReturned EXCEPT ![scCall.entry] = @ + 1]
            /\ scRet' = Ended(scCall, "hit")
    /\ scPc' = "idle"
    /\ scCall' = NoCall
    /\ UNCHANGED <<now, peerVars, ftVars, lbVars, genVars, loopVars>>

\* SemanticCache.add: the constructor call raises before the session is
\* opened, so no row is written.
sc_add ==
    /\ \E prompt \in GenPrompts, model_id \in ModelIds, cache_key \in CacheKeys :
          scRet' = Ended([op |-> "add", prompt |-> prompt, model_id |-> model_id,
                          cache_key |-> cache_key],
                         IF CacheAddOutcome(cacheEnabled) = "raise"
                         THEN "raise" ELSE "none")
    /\ UNCHANGED <<cacheEntries, now, scPc, scCall, peerVars, hitsReturned, ftVars,
                   lbVars, genVars, loopVars>>

\* a DELETE without its WHERE clause
Expired_AlsoLive(t) == {e \in EntryIds : cacheEntries[e] # NoEntry}

\* the rows the DELETE of _clean_expired_entries removes
Expired(t) == {e \in EntryIds : cacheEntries[e] # NoEntry /\ cacheEntries[e].expires_at < t}

\* _clean_expired_entries, one iteration of cleanup_loop
sc_clean ==
    /\ "cleanup" \notin loopStopped
    /\ Expired(now) # {}
    /\ cacheEntries' = [e \in EntryIds |->
                          IF e \in Expired(now) THEN NoEntry ELSE cacheEntries[e]]
    /\ UNCHANGED <<now, scPc, scCall, scRet, peerVars, hitsReturned, ftVars, lbVars,
                   genVars, loopVars>>

\* time passes
sc_tick ==
    /\ now < MaxTime
    /\ now' = now + 1
    /\ UNCHANGED <<cacheEntries, scPc, scCall, scRet, peerVars, hitsReturned, ftVars,
                   lbVars, genVars, loopVars>>

\* a second caller in SemanticCache.get without a cache key, up to its
\* commit: its own session, its own SELECT, the increment in that session
peer_get_select ==
    /\ peerPc = "idle"
    /\ cacheEnabled
    /\ \E prompt \in GenPrompts, model_id \in ModelIds :
          LET found == Matching(prompt, model_id, now)
          IN  /\ found # {}
              /\ cacheEntries[FirstOf(found)].hit_count < MaxHits
              /\ peerPc' = "commit"
              /\ peerCall' =
                    [op |-> "get", prompt |-> prompt, model_id |-> model_id,
                     cache_key |-> NoKey, entry |-> FirstOf(found),
                     hit_count |-> cacheEntries[FirstOf(found)].hit_count + 1,
                     response |-> ResponseFor(cacheEntries[FirstOf(found)].query_text)]
    /\ UNCHANGED <<cacheEntries, now, scPc, scCall, scRet, hitsReturned, ftVars, lbVars,
                   genVars, loopVars>>

\* the commit of the second caller and its return
peer_get_commit ==
    /\ peerPc = "commit"
    /\ IF cacheEntries[peerCall.entry] = NoEntry
       THEN UNCHANGED <<cacheEntries, hitsReturned>>
       ELSE /\ cacheEntries' = [cacheEntries EXCEPT
                                   ![peerCall.entry].hit_count = peerCall.hit_count]
            /\ hitsReturned' = [hitsReturned EXCEPT ![peerCall.entry] = @ + 1]
    /\ peerPc' = "idle"
    /\ peerCall' = NoCall
    /\ UNCHANGED <<now, scPc, scCall, scRet, ftVars, lbVars, genVars, loopVars>>

\* two callers in get at the same time on a table no row leaves
LookupsNext ==
    \/ sc_get_select
    \/ sc_get_commit
    \/ peer_get_select
    \/ peer_get_commit

CacheNext ==
    \/ sc_get_select
    \/ sc_get_commit
    \/ sc_add
    \/ sc_clean
    \/ sc_tick

\* ------------------------------------------------------------ specifications

FTNext ==
    \/ initialize
    \/ Restart
    \/ create_job
    \/ poll_check
    \/ poll_select
    \/ poll_commit
    \/ \E j \in Jobs : run_load(j)
    \/ \E j \in Jobs : run_commit_running(j)
    \/ \E j \in Jobs : run_step(j)
    \/ \E j \in Jobs : run_commit_model(j)
    \/ \E j \in Jobs : run_raise(j)
    \/ \E j \in Jobs : run_commit_final(j)
    \/ \E j \in Jobs : cancel_select(j)
    \/ cancel_commit
    \/ cancel_return

\* ------------------------------------------------------------ background loops

\* a loop without an exception handler: what an iteration raises ends the task
StoppedAfter_NoHandler(l) == loopStopped \cup {l}

\* each loop body is `try: await <iteration>; await sleep ... except Exception:
\* log; await sleep`, inside `while True`: the task goes on
StoppedAfter(l) == loopStopped

LoopRaises(l) ==
    /\ l \notin loopStopped
    /\ loopErrors[l] < MaxLoopErrors
    /\ loopErrors' = [loopErrors EXCEPT ![l] = @ + 1]
    /\ loopStopped' = StoppedAfter(l)

\* _check_all_servers_health raises (a commit of update_server_health fails):
\* the rest of the pass and its refresh_servers are skipped
hc_raise ==
    /\ lbInitialized
    /\ LoopRaises("health")
    /\ hcIdx' = 0
    /\ UNCHANGED <<dbHealth, servers, server_metrics, last_server_index,
                   load_balancing_strategy, lbInitialized, mcList, mcIdx, metricRows,
                   selected, getTick, rrHist, ftVars, genVars, scVars>>

\* _collect_all_server_metrics raises: the rows added to the session in this
\* pass are not committed; snapshots already cached stay
mc_raise ==
    /\ lbInitialized
    /\ mcList # <<>>
    /\ LoopRaises("metrics")
    /\ mcList' = <<>>
    /\ mcIdx' = 0
    /\ metricRows' = <<>>
    /\ UNCHANGED <<dbHealth, servers, server_metrics, last_server_index,
                   load_balancing_strategy, lbInitialized, hcIdx, selected, getTick,
                   rrHist, ftVars, genVars, scVars>>

\* _clean_expired_entries raises: nothing is deleted
sc_clean_raise ==
    /\ LoopRaises("cleanup")
    /\ UNCHANGED <<ftVars, lbVars, genVars, scVars>>

\* _process_next_job raises at its select or at its commit: no job is marked
\* and no run task is created
poll_raise ==
    /\ pollPc \in {"select", "commit"}
    /\ LoopRaises("polling")
    /\ pollPc' = "sleep"
    /\ pollJob' = NoJob
    /\ UNCHANGED <<launches,
                   cancelSeen, cancelledQueued, jobStatus, startedAt, completedAt,
                   outputModel, active_jobs, runPc, runStatus, runStep, cancelPc,
                   cancelId, cancelRet, restarts, resumeLog, lbVars, genVars, scVars>>

\* the four loops with iterations that raise; jobs are created, none is run
BackgroundNext ==
    \/ lb_initialize
    \/ initialize
    \/ create_job
    \/ poll_check
    \/ poll_select
    \/ poll_commit
    \/ hc_check
    \/ hc_refresh
    \/ mc_start
    \/ mc_collect
    \/ sc_clean
    \/ sc_tick
    \/ hc_raise
    \/ mc_raise
    \/ sc_clean_raise
    \/ poll_raise

InitRR ==
    /\ InitJobs
    /\ InitLoops
    /\ InitCacheWith([e \in EntryIds |-> NoEntry])
    /\ InitGenWith({LLM_DEFAULT_MODEL}, TRUE)
    /\ \E n \in 0..MaxServers, h0 \in {"unknown", "healthy"},
          strategy \in {"round_robin", "random"} :
          InitLBWith(n, h0, strategy)

SpecRR == InitRR /\ [][RRNext]_vars

InitLB ==
    /\ InitJobs
    /\ InitLoops
    /\ InitCacheWith([e \in EntryIds |-> NoEntry])
    /\ InitGenWith({LLM_DEFAULT_MODEL}, TRUE)
    /\ \E n \in 0..MaxLoadServers, h0 \in {"unknown", "healthy"},
          strategy \in Strategies :
          InitLBWith(n, h0, strategy)

SpecLB == InitLB /\ [][LBNext]_vars

InitGen ==
    /\ InitJobs
    /\ InitLoops
    /\ InitCacheWith([e \in EntryIds |-> NoEntry])
    /\ \E n \in 0..MaxGenServers, h0 \in {"unknown", "healthy"} :
          InitLBWith(n, h0, "round_robin")
    /\ \E models \in SUBSET ModelNames, enabled \in BOOLEAN :
          InitGenWith(models, enabled)

SpecGen == InitGen /\ [][GenNext]_vars

InitCache ==
    /\ InitJobs
    /\ InitLoops
    /\ InitLBWith(0, "unknown", "round_robin")
    /\ \E enabled \in BOOLEAN : InitGenWith({LLM_DEFAULT_MODEL}, enabled)
    /\ \E entries \in [EntryIds -> EntryRows \cup {NoEntry}] : InitCacheWith(entries)

SpecCache == InitCache /\ [][CacheNext]_vars

SpecLookups == InitCache /\ [][LookupsNext]_vars

\* a row that expires at the clock's first tick
SoonExpiring ==
    [query_text |-> "Explain X", query_embedding |-> "json", model_id |-> 1,
     expires_at |-> 1, hit_count |-> 0]

\* a row that outlives the clock
LongLived == [SoonExpiring EXCEPT !.expires_at = MaxTime]

InitBackground ==
    /\ InitJobs
    /\ InitLoops
    /\ InitGenWith({LLM_DEFAULT_MODEL}, TRUE)
    /\ \E n \in 1..MaxGenServers : InitLBWith(n, "healthy", "least_load")
    /\ \E entries \in [EntryIds -> {SoonExpiring, LongLived}] : InitCacheWith(entries)

SpecBackground == InitBackground /\ [][BackgroundNext]_vars

InitFT ==
    /\ InitJobs
    /\ InitLoops
    /\ InitCacheWith([e \in EntryIds |-> NoEntry])
    /\ InitGenWith({LLM_DEFAULT_MODEL}, TRUE)
    /\ InitLBWith(0, "unknown", "round_robin")

SpecFT == InitFT /\ [][FTNext]_vars

\* one process lifetime without cancel_job: the startup hook, create_job, the
\* polling loop (its iterations may raise) and the run tasks
LifetimeNext ==
    \/ initialize
    \/ create_job
    \/ poll_check
    \/ poll_select
    \/ poll_commit
    \/ poll_raise
    \/ \E j \in Jobs : run_load(j)
    \/ \E j \in Jobs : run_commit_running(j)
    \/ \E j \in Jobs : run_step(j)
    \/ \E j \in Jobs : run_commit_model(j)
    \/ \E j \in Jobs : run_raise(j)
    \/ \E j \in Jobs : run_commit_final(j)

\* the event loop resumes every task that is ready: the startup hook, the
\* polling task after its sleep, and each run task after each await
LifetimeFairness ==
    /\ WF_vars(initialize)
    /\ WF_vars(poll_check)
    /\ WF_vars(poll_select)
    /\ WF_vars(poll_commit)
    /\ \A j \in Jobs :
         /\ WF_vars(run_load(j))
         /\ WF_vars(run_commit_running(j))
         /\ WF_vars(run_step(j))
         /\ WF_vars(run_commit_model(j))
         /\ WF_vars(run_commit_final(j))

SpecLifetime == InitFT /\ [][LifetimeNext]_vars /\ LifetimeFairness

\* ------------------------------------------------------------ properties

C3_StatusOnlyForward ==
    [][\A r \in Requests :
          LET rank(st) == CASE st = "absent" -> 0
                            [] st = "pending" -> 1
                            [] st = "processing" -> 2
                            [] OTHER -> 3
          IN  queryStatus'[r] # queryStatus[r]
                 => /\ rank(queryStatus'[r]) > rank(queryStatus[r])
                    /\ queryStatus[r] \notin {"completed", "failed"}]_vars

C3_Witness ==
    \E r1, r2 \in Requests :
       /\ genPc[r1] = "done" /\ genRet[r1] = "success" /\ queryStatus[r1] = "completed"
       /\ genPc[r2] = "done" /\ genRet[r2] = "error" /\ queryStatus[r2] = "failed"

C5_ResumeLeavesNoneActive ==
    [][(pollPc = "down" /\ pollPc' = "created")
         => \A j \in Jobs : jobStatus'[j] \notin {"preparing", "running"}]_vars

HealthyAt(list) == {i \in 1..Len(list) : list[i].health_status = "healthy"}
LoadAt(list, metrics, i) ==
    metrics[list[i].id].active_requests + metrics[list[i].id].queue_depth

\* C8: every get_server call returns None exactly when the node list holds no
\* healthy node and otherwise a node of the list whose health status is
\* healthy; under least_load, with two healthy nodes of loads 5 and 2 it
\* returns the second, and with the second not healthy it returns the first.
C8_OnlyHealthySelected ==
    [][getTick' # getTick
         => LET H == HealthyAt(servers')
            IN  /\ (selected' = NoServer) <=> (H = {})
                /\ selected' # NoServer => \E i \in H : servers'[i].id = selected'
                /\ ( /\ load_balancing_strategy = "least_load"
                     /\ Len(servers') = 2
                     /\ LoadAt(servers', server_metrics', 1) = 5
                     /\ LoadAt(servers', server_metrics', 2) = 2
                     /\ 1 \in H )
                   => selected' = servers'[IF 2 \in H THEN 2 ELSE 1].id]_vars

C8_Witness ==
    /\ load_balancing_strategy = "least_load"
    /\ Len(servers) = 2
    /\ LoadAt(servers, server_metrics, 1) = 5
    /\ LoadAt(servers, server_metrics, 2) = 2
    /\ servers[1].health_status = "healthy"
    /\ servers[2].health_status = "Error: timeout"
    /\ selected = servers[1].id
    /\ hcIdx = 0
    /\ getTick

C10_LeastLoadEarliestMin ==
    [][(getTick' # getTick /\ load_balancing_strategy = "least_load"
           /\ selected' # NoServer)
         => LET H == HealthyAt(servers')
            IN  \E k \in H :
                   /\ servers'[k].id = selected'
                   /\ \A i \in H :
                         /\ LoadAt(servers', server_metrics', k)
                               <= LoadAt(servers', server_metrics', i)
                         /\ i < k => LoadAt(servers', server_metrics', i)
                                        > LoadAt(servers', server_metrics', k)]_vars

C10_Witness ==
    /\ load_balancing_strategy = "least_load"
    /\ Len(servers) = 2
    /\ HealthyAt(servers) = {1, 2}
    /\ server_metrics[servers[1].id].active_requests = 2
    /\ server_metrics[servers[2].id].active_requests = 1
    /\ LoadAt(servers, server_metrics, 1) = LoadAt(servers, server_metrics, 2)
    /\ selected = servers[1].id
    /\ getTick

\* C11: after add has been called with a cache key, an immediately following
\* get with the same cache key and model id returns the stored response and
\* the entry's hit counter is one more than before.
C11_StoreThenLookupHits ==
    [][(/\ cacheEnabled
        /\ scRet.op = "add" /\ scRet.cache_key # NoKey
        /\ scRet' # scRet /\ scRet'.op = "get"
        /\ scRet'.cache_key = scRet.cache_key /\ scRet'.model_id = scRet.model_id)
         => /\ scRet'.outcome = "hit"
            /\ cacheEntries'[scRet'.entry].hit_count
                  = cacheEntries[scRet'.entry].hit_count + 1]_vars

\* C12: the row a get call picks to return has not expired: the clock does
\* not exceed its expires_at when the lookup reads the table, whether or not
\* rows that have expired are still in the table.
C12_ExpiredNeverReturned ==
    [][(scPc = "idle" /\ scPc' = "commit")
         => /\ cacheEntries[scCall'.entry] # NoEntry
            /\ ~(now > cacheEntries[scCall'.entry].expires_at)]_vars

C12_Witness ==
    /\ scRet.op = "get" /\ scRet.outcome = "hit"
    /\ \E e \in EntryIds :
          /\ e < scRet.entry
          /\ cacheEntries[e] # NoEntry
          /\ cacheEntries[e].model_id = cacheEntries[scRet.entry].model_id
          /\ cacheEntries[e].query_embedding = "json"
          /\ cacheEntries[e].query_text = cacheEntries[scRet.entry].query_text
          /\ cacheEntries[e].expires_at < cacheEntries[scRet.entry].expires_at

\* the servers get_server would choose from if it were called now
ServersSeen == IF servers = <<>> THEN LoadServers(MaxServers) ELSE servers

\* C13: with the cache enabled and empty and a healthy backend, a first
\* generate goes on from its cache probe to the backend (its one backend
\* call), and a later generate with the same prompt and model, started after
\* the first returned its answer, returns it from the cache without a backend
\* call.
C13_SecondIdenticalCallIsCached ==
    [][\A r \in Requests :
          /\ (/\ cacheEnabled
              /\ genPc[r] = "logged" /\ genPc'[r] # "logged"
              /\ HealthyServers(ServersSeen) # <<>>
              /\ \A q \in genLog[r].after : genRet[q] # "success")
                => genPc'[r] = "processing"
          /\ (/\ cacheEnabled
              /\ genPc[r] # "done" /\ genPc'[r] = "done"
              /\ \E q \in genLog[r].after :
                    /\ genRet[q] = "success"
                    /\ genLog[q].prompt = genLog[r].prompt
                    /\ genLog[q].model = genLog[r].model)
                => /\ genLog'[r].cached
                   /\ genRet'[r] = "success"
                   /\ genLog'[r].backend_calls = 0]_vars

\* C14: a generate whose cache lookup gave nothing and that finds no server
\* with health status healthy returns the error "No suitable server
\* available" and leaves its request failed, after one get_server call and
\* without a backend call.
C14_NoServerFailsWithoutDispatch ==
    [][\A r \in Requests :
          /\ (/\ genPc[r] = "logged" /\ genPc'[r] # "logged"
              /\ getTick' # getTick
              /\ \A i \in 1..Len(ServersSeen) :
                    ServersSeen[i].health_status # "healthy")
                => genPc'[r] = "no_server"
          /\ (genPc[r] = "no_server" /\ genPc'[r] # "no_server")
                => /\ genPc'[r] = "done"
                   /\ genRet'[r] = "error"
                   /\ genLog'[r].error = "No suitable server available"
                   /\ queryStatus'[r] = "failed"
                   /\ queryInfo'[r].error_message = "No suitable server available"
                   /\ genLog'[r].lb_calls = 1
                   /\ genLog'[r].backend_calls = 0]_vars

C14_Witness ==
    \E r \in Requests :
       /\ genPc[r] = "done"
       /\ genLog[r].error = "No suitable server available"
       /\ queryStatus[r] = "failed"
       /\ genLog[r].lb_calls = 1
       /\ Len(servers) > 0

\* C16: a cache lookup that fails is treated as a miss: the generate call
\* goes on to choose a server.
C16_LookupFailureIsMiss ==
    [][\A r \in Requests :
          (/\ genPc[r] = "logged" /\ genPc'[r] # "logged"
           /\ CacheGetOutcome(cacheEnabled) = "raise")
             => /\ getTick' # getTick
                /\ genPc'[r] \in {"no_server", "processing"}
                /\ genRet'[r] # "raised"]_vars

\* C18: after the POST to a backend, a status code other than 200, a body
\* with an error field and an exception (a timeout included) each leave the
\* request failed with the error text in its row, and generate returns that
\* error; none leaves the request completed or returns success.
C18_DispatchFailuresFail ==
    [][\A r \in Requests :
          (genPc[r] \in {"http_error", "error_field", "except"} /\ genPc'[r] # genPc[r])
             => /\ genPc'[r] = "done"
                /\ queryStatus'[r] = "failed"
                /\ genRet'[r] = "error"
                /\ genLog'[r].error = ErrorText(genPc[r])
                /\ genLog'[r].error # "none"
                /\ queryInfo'[r].error_message = genLog'[r].error
                /\ genLog'[r].backend_calls = 1]_vars

C18_Witness ==
    \E r1, r2 \in Requests :
       /\ genPc[r1] = "done" /\ queryStatus[r1] = "failed"
       /\ queryInfo[r1].error_message = "LLM server error: overloaded"
       /\ genPc[r2] = "done" /\ queryStatus[r2] = "failed"
       /\ queryInfo[r2].error_message = "Error: exception"
       /\ genLog[r2].backend_calls = 1

\* C19: generate uses the named model if it exists, else the default model if
\* that exists; with neither it returns "Model not found" at once, and that
\* call has no request row, no cache probe, no server selection and no
\* backend call.
C19_ModelResolution ==
    [][\A r \in Requests :
          /\ (genPc[r] = "idle" /\ genPc'[r] # "idle")
                => LET name == genLog'[r].model_name
                   IN  /\ name \in llmModels => genLog'[r].model = name
                       /\ (name \notin llmModels /\ LLM_DEFAULT_MODEL \in llmModels)
                             => genLog'[r].model = LLM_DEFAULT_MODEL
                       /\ (name \notin llmModels /\ LLM_DEFAULT_MODEL \notin llmModels)
                             => /\ genPc'[r] = "done"
                                /\ genRet'[r] = "error"
                                /\ genLog'[r].error = "Model not found"
                       /\ genLog'[r].model # NoModel
                             => /\ genPc'[r] = "logged"
                                /\ queryStatus'[r] = "pending"
          /\ genLog'[r].error = "Model not found"
                => /\ queryStatus'[r] = "absent"
                   /\ genLog'[r].rows = 0
                   /\ genLog'[r].cache_probes = 0
                   /\ genLog'[r].lb_calls = 0
                   /\ genLog'[r].backend_calls = 0]_vars

C19_Witness ==
    \E r1, r2 \in Requests :
       /\ genPc[r1] = "done" /\ genLog[r1].error = "Model not found"
       /\ queryStatus[r1] = "absent"
       /\ genLog[r2].model_name \in llmModels
       /\ genLog[r2].model = genLog[r2].model_name
       /\ queryStatus[r2] # "absent"

\* C20: a generate call that resolved a model has exactly one request row;
\* every call makes at most one POST to a backend and at most one cache
\* write.
C20_OneRecordAtMostOneDispatch ==
    \A r \in Requests :
       /\ genLog[r].model # NoModel => genLog[r].rows = 1
       /\ genLog[r].model = NoModel => genLog[r].rows = 0
       /\ genLog[r].backend_calls \in {0, 1}
       /\ genLog[r].cache_adds \in {0, 1}
       /\ genLog[r].cache_adds <= genLog[r].backend_calls

C20_Witness ==
    \E r1, r2 \in Requests :
       /\ genPc[r1] = "done" /\ genLog[r1].rows = 1 /\ genLog[r1].backend_calls = 1
       /\ genRet[r1] = "error"
       /\ genPc[r2] = "done" /\ genLog[r2].rows = 1 /\ genLog[r2].backend_calls = 0
       /\ genLog[r2].lb_calls = 1

\* C21: the polling loop launches the oldest queued job: no job is moved to
\* preparing while a job created before it is queued.
C21_OldestQueuedFirst ==
    [][\A j \in Jobs :
          (jobStatus'[j] = "preparing" /\ jobStatus[j] # "preparing")
             => \A i \in Jobs : i < j => jobStatus[i] # "queued"]_vars

C21_Witness ==
    \E j, i \in Jobs :
       /\ j < i
       /\ jobStatus[j] = "preparing" /\ startedAt[j]
       /\ jobStatus[i] = "queued"

\* C22: the concurrency slot is released whenever a run ends: a job in the
\* active-job set has a run task that has not reached the end of its try
\* block, so after a run that completed, raised or was cancelled the job is
\* not in the set and the polling loop is not held back by it.
C22_SlotReleasedWhenRunEnds ==
    \A j \in Jobs :
       j \in active_jobs => runPc[j] \in {"commit_running", "train", "commit_model"}

C22_Witness ==
    \E j, i \in Jobs :
       /\ runPc[j] = "done" /\ jobStatus[j] = "failed"
       /\ i # j /\ jobStatus[i] = "preparing" /\ runPc[i] = "start"

C24_ProcessingBeforeSelection ==
    [][\A r \in Requests :
          /\ (genPc[r] = "logged" /\ genPc'[r] # "logged" /\ getTick' # getTick)
                => queryStatus[r] = "processing"
          /\ (/\ queryStatus[r] # "failed" /\ queryStatus'[r] = "failed"
              /\ queryInfo'[r].error_message = "No suitable server available")
                => queryStatus[r] = "processing"]_vars

\* C25: in the metrics loop only a successful fetch replaces a server's cached
\* snapshot and adds a ServerLoadMetrics row: a fetch that failed (it comes
\* back as the zero snapshot) leaves the cached snapshot as it was and adds no
\* row.
C25_FailedFetchLeavesSnapshot ==
    [][(mcList # <<>> /\ (mcIdx' # mcIdx \/ mcList' = <<>>))
         => LET s == mcList[mcIdx + 1].id
            IN  /\ server_metrics'[s] # server_metrics[s]
                      => server_metrics'[s] \in MetricSamples
                /\ Len(metricRows') > Len(metricRows)
                      => metricRows'[Len(metricRows')].metrics \in MetricSamples]_vars

\* C26: a node the health-check loop has recorded as not healthy is returned
\* by no get_server call until a later check records it healthy, also by
\* calls made while the same pass of the loop is still checking other nodes.
C26_UnhealthyExcludedAtOnce ==
    [][(getTick' # getTick /\ selected' # NoServer)
         => dbHealth[selected'] = "healthy"]_vars

\* C27: the health status of every server row is one of unknown, healthy,
\* degraded, offline.
C27_HealthStatusValues ==
    \A s \in Servers :
       dbHealth[s] # "absent"
          => dbHealth[s] \in {"unknown", "healthy", "degraded", "offline"}

\* the live rows stored for the prompt and model a cache key was computed
\* from (compute_cache_key hashes the two): the rows an exact-key lookup is
\* meant to find
KeyedEntries(prompt, model_id, t) ==
    {e \in LiveEntries(model_id, t) : cacheEntries[e].query_text = prompt}

\* C28: a get with a cache key, made while a non-expired entry for that key
\* and model id exists, returns that entry and adds one to its hit counter
\* and to no other, whatever other entries are similar to the prompt.
C28_ExactKeyHit ==
    [][(/\ cacheEnabled
        /\ scRet' # scRet /\ scRet'.op = "get" /\ scRet'.cache_key # NoKey
        /\ KeyedEntries(scRet'.prompt, scRet'.model_id, now) # {})
          => /\ scRet'.outcome = "hit"
             /\ scRet'.entry \in KeyedEntries(scRet'.prompt, scRet'.model_id, now)
             /\ \A e \in EntryIds :
                   cacheEntries[e] # NoEntry
                      => /\ cacheEntries'[e] # NoEntry
                         /\ cacheEntries'[e].hit_count =
                               cacheEntries[e].hit_count
                                  + (IF e = scRet'.entry THEN 1 ELSE 0)]_vars

\* C29: a get for which no exact-key entry exists (no key given, or none
\* stored for it) picks, among the non-expired entries of the same model id
\* whose embedding is similar enough to the prompt's, the first in storage
\* order, and returns a miss when there is none.
C29_FirstSimilarEntry ==
    [][(/\ cacheEnabled
        /\ scPc = "idle"
        /\ scPc' = "commit" \/ (scRet' # scRet /\ scRet'.op = "get"))
          => LET call == IF scPc' = "commit" THEN scCall' ELSE scRet'
                 found == {e \in EntryIds :
                             /\ cacheEntries[e] # NoEntry
                             /\ cacheEntries[e].model_id = call.model_id
                             /\ cacheEntries[e].expires_at > now
                             /\ cacheEntries[e].query_embedding = "json"
                             /\ Similar(call.prompt, cacheEntries[e].query_text)}
             IN  (\/ call.cache_key = NoKey
                  \/ KeyedEntries(call.prompt, call.model_id, now) = {})
                    => /\ found = {} => (scPc' = "idle" /\ scRet'.outcome = "none")
                       /\ found # {}
                             => /\ scPc' = "commit"
                                /\ scCall'.entry \in found
                                /\ \A f \in found : scCall'.entry <= f]_vars

\* C30: an existing cache entry changes only by one added to its hit counter
\* or by being deleted once its expiry has passed; its prompt, embedding,
\* model id and expiry stay as they were created.
C30_EntryOnlyCountedOrPurged ==
    [][\A e \in EntryIds :
          (cacheEntries[e] # NoEntry /\ cacheEntries'[e] # cacheEntries[e])
             => \/ cacheEntries'[e] = NoEntry /\ cacheEntries[e].expires_at < now
                \/ /\ cacheEntries'[e] # NoEntry
                   /\ cacheEntries'[e] =
                         [cacheEntries[e] EXCEPT !.hit_count = cacheEntries[e].hit_count + 1]]_vars

C30_Witness ==
    /\ scRet.op = "get" /\ scRet.cache_key = NoKey /\ scRet.outcome = "raise"
    /\ \E e \in EntryIds : cacheEntries[e] # NoEntry /\ cacheEntries[e].hit_count >= 1
    /\ \E e \in EntryIds : cacheEntries[e] = NoEntry

C32_KeyedWriteIdempotent ==
    [][(/\ cacheEnabled
        /\ scRet' # scRet /\ scRet'.op = "add" /\ scRet'.cache_key # NoKey)
          => LET for(entries) ==
                    {e \in EntryIds : /\ entries[e] # NoEntry
                                      /\ entries[e].query_text = scRet'.prompt
                                      /\ entries[e].model_id = scRet'.model_id}
             IN  Cardinality(for(cacheEntries)) <= 1
                    => Cardinality(for(cacheEntries')) = 1]_vars

\* C33: each of the four background loops (health-check, metrics-collection,
\* cache-eviction, job-polling) catches an error raised in an iteration and is
\* back at the start of an iteration afterwards, and the error stops no loop
\* and moves no other loop: at every step where an iteration of loop l raises,
\* no loop task has ended, l is at its iteration start, and the positions of
\* the other three loops are as before.
C33_LoopsSurviveErrors ==
    [][\A l \in Loops :
          loopErrors'[l] > loopErrors[l]
             => /\ loopStopped' = {}
                /\ l = "health" => hcIdx' = 0 /\ lbInitialized'
                /\ l = "metrics" => mcList' = <<>> /\ lbInitialized'
                /\ l = "polling" => pollPc' = "sleep"
                /\ l # "health" => hcIdx' = hcIdx
                /\ l # "metrics" => mcList' = mcList /\ mcIdx' = mcIdx
                /\ l # "polling" => pollPc' = pollPc /\ pollJob' = pollJob
                /\ l # "cleanup" => cacheEntries' = cacheEntries]_vars

\* every loop has had an iteration raise, and afterwards the health pass has
\* checked a server, a metrics pass is under way, the polling loop has selected
\* a job, and the eviction has deleted a row
C33_Witness ==
    /\ \A l \in Loops : loopErrors[l] = MaxLoopErrors
    /\ loopStopped = {}
    /\ hcIdx > 0
    /\ mcList # <<>>
    /\ pollPc = "commit"
    /\ \E e \in EntryIds : cacheEntries[e] = NoEntry

C35_ReturnLeavesTerminalRecord ==
    \A r \in Requests :
        (genPc[r] = "done" /\ genLog[r].rows > 0)
            => queryStatus[r] \in {"completed", "failed"}

\* C36: when generate has returned, its result is a success result if and
\* only if the request record it created has status completed, and the record
\* has cached = true if and only if the response came from the cache and no
\* backend call was made.
C36_ResultMatchesRecord ==
    \A r \in Requests :
        (genPc[r] = "done" /\ genLog[r].rows > 0)
            => /\ genRet[r] = "success" <=> queryStatus[r] = "completed"
               /\ queryInfo[r].cached
                     <=> (genLog[r].cached /\ genLog[r].backend_calls = 0)

\* one call has returned a success result from the backend, its record
\* completed and not marked cached; another has returned an error result with
\* its record failed
C36_Witness ==
    \E r1, r2 \in Requests :
       /\ genPc[r1] = "done" /\ genRet[r1] = "success"
       /\ queryStatus[r1] = "completed" /\ ~queryInfo[r1].cached
       /\ genLog[r1].backend_calls = 1
       /\ genPc[r2] = "done" /\ genRet[r2] = "error" /\ genLog[r2].backend_calls = 1
       /\ queryStatus[r2] = "failed" /\ ~queryInfo[r2].cached

C38_LaunchedAtMostOnce == \A j \in Jobs : launches[j] <= 1

\* in one process lifetime job 1 was launched and cancelled, job 2 was launched
\* and failed, and the polling loop has since looked for a queued job and
\* found none
C38_Witness ==
    /\ restarts = 0
    /\ launches[1] = 1 /\ jobStatus[1] = "cancelled"
    /\ launches[MaxJobs] = 1 /\ jobStatus[MaxJobs] = "failed"
    /\ runPc[MaxJobs] = "done"
    /\ active_jobs = {}
    /\ pollPc = "sleep"
    /\ cancelPc = "idle"

=============================================================================
